---------------------------- MODULE Spec2Model ----------------------------
(***************************************************************************)
(* A model of the sb63 pipeline.                                           *)
(*                                                                         *)
(*   query_osm.py       the Retriever: main() walks the (county, category) *)
(*                      pairs, skips the pairs whose document exists and   *)
(*                      calls query_overpass(), a bounded retry loop with  *)
(*                      exponential backoff.            (specification     *)
(*                      Spec)                                              *)
(*   convert_to_csv.py  the Tabulator: main() scans the data directory,    *)
(*                      turns every meaningful element of every document   *)
(*                      into a row, filters, orders the columns and writes *)
(*                      one table per category.  (specifications TabSpec   *)
(*                      and GeoSpec, over two universes of elements;       *)
(*                      IncludeSpec for should_include_element alone)      *)
(***************************************************************************)
EXTENDS Naturals, Integers, Sequences, FiniteSets, TLC

VARIABLES
    \* ---- query_osm.py ----
    files,      \* data/<county>/<category>.json : pair -> document or NoFile
    run,        \* which run of main() this is
    idx,        \* position of main()'s nested loop in PairOrder
    pc,         \* where the run is: "loop", "post", "sleep", "returned", "done"
    attempt,    \* query_overpass: the loop variable
    delay,      \* query_overpass: the computed delay
    result,     \* query_overpass: the value returned to main()
    \* ---- observation of the run (written, never read, by the program) ----
    responses,  \* what httpx.post answered, in order, in the current call
    log,        \* the requests and sleeps of the current call, in order
                \*   (both emptied when main() takes the call's result)
    visited,    \* the pairs the current run has visited, in order
    requested,  \* the pairs the current run has issued a request for
    files0,     \* files as they were when the current run started
    \* ---- convert_to_csv.py ----
    data,        \* the data directory: <<directory, stem>> -> JSON file
    tpc,         \* where main() is: "scan", "frame", "columns", "groups",
                 \*   "done", "nodata" (line 173), "keyerror" (a traceback)
    dirs,        \* the directories of data/ the outer loop has yet to visit
    jsons,       \* the files of the current directory yet to visit
    query_county,\* the current directory's name
    all_data,    \* the rows collected so far
    node_lookup, \* the node index of the document processed last
    df_all,      \* the DataFrame: [columns, rows]
    col_order,   \* line 192
    tag_columns, \* line 195
    purposes,    \* the groups of line 202 yet to be written
    csv,         \* data/csv/<purpose>.csv : purpose -> [columns, rows]
    \* ---- should_include_element called on its own ----
    element,     \* the argument
    included,    \* the value returned
    ipc          \* "call" before the call, "ret" after it

rvars == <<files, run, idx, pc, attempt, delay, result,
           responses, log, visited, requested, files0>>

tvars == <<data, tpc, dirs, jsons, query_county, all_data, node_lookup,
           df_all, col_order, tag_columns, purposes, csv>>

ivars == <<element, included, ipc>>

vars == <<rvars, tvars, ivars>>

-----------------------------------------------------------------------------
(* Bounds of the model *)

\* main() is run this many times over the same data directory
MaxRuns == 2

\* the two main documents of the Tabulator's input hold at most this many
\* elements together
MaxElems == 3

\* an element given to should_include_element holds at most this many tags
MaxTags == 2

-----------------------------------------------------------------------------
(* query_osm.py: configuration *)

\* the keys of COUNTIES, in insertion order
COUNTIES == <<"alameda", "contra_costa", "san_francisco", "san_mateo", "santa_clara">>

\* the counties the model's runs of query_osm.main query: the first two
Counties == SubSeq(COUNTIES, 1, 2)

\* the keys of QUERIES, in insertion order
QUERIES == <<"religion", "social_community", "events", "bikeshops", "bookstores">>

\* the categories the model's runs of query_osm.main query: the first two
Categories == SubSeq(QUERIES, 1, 2)

\* query_overpass(query_str, max_retries=5)
max_retries == 5

\* the order in which main()'s nested for loops visit the pairs
PairOrder ==
    [i \in 1..(Len(Counties) * Len(Categories)) |->
        <<Counties[((i - 1) \div Len(Categories)) + 1],
          Categories[((i - 1) % Len(Categories)) + 1]>>]

Pairs == {PairOrder[i] : i \in DOMAIN PairOrder}

NoFile == "NoFile"
None == "None"

\* a response body that response.json() cannot parse
BadJson == "<html>"
\* the JSON object {}: parsed, and falsy in Python
EmptyDoc == "{}"
\* JSON objects with an "elements" array
Docs == {"docA", "docB"}

TransportError == [status |-> 0, body |-> "exception"]

\* what httpx.post can answer: a response with a status code, or an exception
Statuses == {200, 404, 429, 500}
Responses ==
    {[status |-> 200, body |-> b] : b \in Docs \cup {EmptyDoc, BadJson}}
      \cup {[status |-> s, body |-> "text"] : s \in Statuses \ {200}}
      \cup {TransportError}

-----------------------------------------------------------------------------
(* query_osm.py: query_overpass *)

\* the statement of line 67 raises: the request failed in transport
Raises(r) == r = TransportError

\* line 70: response.json() raises on a body that is not JSON
JsonRaises(r) == r.status = 200 /\ r.body = BadJson

\* a retry of every error status
IsServerOrRateLimit_AnyError(status) == status >= 400

\* line 71
IsServerOrRateLimit(status) == status >= 500 \/ status = 429

\* a linear backoff
BackoffDelay_Linear(a) == 2 * a

\* line 73
BackoffDelay(a) == 2 ^ a

\* the final attempt sleeps too
ExceptDelay_AlwaysSleep(a) == 2 ^ a

\* line 82
ExceptDelay(a) == IF a < max_retries - 1 THEN 2 ^ a ELSE 0

\* Python truthiness of the value query_overpass returned (line 122)
Truthy(v) == v # None /\ v # EmptyDoc

Req == [t |-> "req", d |-> 0]
SleepEv(d) == [t |-> "sleep", d |-> d]

\* One iteration of the for loop up to its sleep: the request of line 67 and
\* the branch its outcome selects.
Post(r) ==
    /\ pc = "post"
    /\ attempt < max_retries
    /\ responses' = Append(responses, r)
    /\ log' = Append(log, Req)
    /\ requested' = requested \cup {PairOrder[idx]}
    /\ IF Raises(r) \/ JsonRaises(r)
         THEN \* except Exception (lines 81-88)
              /\ delay' = ExceptDelay(attempt)
              /\ IF delay' > 0
                   THEN pc' = "sleep" /\ UNCHANGED result
                   ELSE pc' = "returned" /\ result' = None   \* break; line 91
         ELSE IF r.status = 200
           THEN pc' = "returned" /\ result' = r.body /\ UNCHANGED delay
         ELSE IF IsServerOrRateLimit(r.status)
           THEN pc' = "sleep" /\ delay' = BackoffDelay(attempt) /\ UNCHANGED result
         ELSE pc' = "returned" /\ result' = None /\ UNCHANGED delay
    /\ UNCHANGED <<files, run, idx, attempt, visited, files0>>
    /\ UNCHANGED <<tvars, ivars>>

\* time.sleep(delay) of line 75 or 86, then the next iteration of the loop, or
\* the fall out of it to "Max retries exceeded" (lines 90-91).
Sleep ==
    /\ pc = "sleep"
    /\ log' = Append(log, SleepEv(delay))
    /\ attempt' = attempt + 1
    /\ IF attempt + 1 < max_retries
         THEN pc' = "post" /\ UNCHANGED result
         ELSE pc' = "returned" /\ result' = None
    /\ UNCHANGED <<files, run, idx, delay, responses, visited, requested, files0>>
    /\ UNCHANGED <<tvars, ivars>>

-----------------------------------------------------------------------------
(* query_osm.py: main *)

\* main() without the filepath.exists() check of lines 114-117
Visit_NoSkip ==
    /\ pc = "loop"
    /\ idx <= Len(PairOrder)
    /\ visited' = Append(visited, PairOrder[idx])
    /\ responses' = <<>>
    /\ log' = <<>>
    /\ pc' = "post"
    /\ attempt' = 0
    /\ delay' = 0
    /\ result' = None
    /\ UNCHANGED <<idx, files, run, requested, files0>>
    /\ UNCHANGED <<tvars, ivars>>

\* Lines 102-120: the next pair; skipped if its file exists, fetched otherwise.
Visit ==
    /\ pc = "loop"
    /\ idx <= Len(PairOrder)
    /\ visited' = Append(visited, PairOrder[idx])
    /\ responses' = <<>>
    /\ log' = <<>>
    /\ IF files[PairOrder[idx]] # NoFile
         THEN \* "Already exists, skipping"
              /\ idx' = idx + 1
              /\ UNCHANGED <<pc, attempt, delay, result>>
         ELSE /\ pc' = "post"
              /\ attempt' = 0
              /\ delay' = 0
              /\ result' = None
              /\ UNCHANGED idx
    /\ UNCHANGED <<files, run, requested, files0>>
    /\ UNCHANGED <<tvars, ivars>>

\* main() letting a failed fetch end the run
Save_AbortOnFailure ==
    /\ pc = "returned"
    /\ IF Truthy(result)
         THEN /\ files' = [files EXCEPT ![PairOrder[idx]] = result]
              /\ idx' = idx + 1
              /\ pc' = "loop"
         ELSE /\ pc' = "done"
              /\ UNCHANGED <<files, idx>>
    /\ responses' = <<>>
    /\ log' = <<>>
    /\ UNCHANGED <<run, attempt, delay, result, visited, requested, files0>>
    /\ UNCHANGED <<tvars, ivars>>

\* Lines 122-132: the result of query_overpass is saved if it is truthy.
Save ==
    /\ pc = "returned"
    /\ files' = IF Truthy(result)
                  THEN [files EXCEPT ![PairOrder[idx]] = result]
                  ELSE files
    /\ idx' = idx + 1
    /\ pc' = "loop"
    /\ responses' = <<>>
    /\ log' = <<>>
    /\ UNCHANGED <<run, attempt, delay, result, visited, requested, files0>>
    /\ UNCHANGED <<tvars, ivars>>

\* Line 134: "All queries completed!"
Finish ==
    /\ pc = "loop"
    /\ idx > Len(PairOrder)
    /\ pc' = "done"
    /\ UNCHANGED <<files, run, idx, attempt, delay, result, responses, log,
                   visited, requested, files0>>
    /\ UNCHANGED <<tvars, ivars>>

\* main() is run again over the data directory the last run left.
Rerun ==
    /\ pc = "done"
    /\ run < MaxRuns
    /\ run' = run + 1
    /\ idx' = 1
    /\ pc' = "loop"
    /\ visited' = <<>>
    /\ requested' = {}
    /\ files0' = files
    /\ responses' = <<>>
    /\ log' = <<>>
    /\ UNCHANGED <<files, attempt, delay, result>>
    /\ UNCHANGED <<tvars, ivars>>

-----------------------------------------------------------------------------
(* Python and pandas values *)

\* pandas' missing value: the cell of a row that has no such key
NaN == "NaN"

\* Series.isna()
IsNa(v) == v = None \/ v = NaN

\* dict.get(k, default)
Get(d, k, default) == IF k \in DOMAIN d THEN d[k] ELSE default

\* str.startswith(prefix), with equality in its place
StartsWith_Equals(s, prefix) == s = prefix

\* str.startswith(prefix)
StartsWith(s, prefix) ==
    Len(s) >= Len(prefix) /\ SubSeq(s, 1, Len(prefix)) = prefix

\* the characters of the model's strings, in code point order
CodePoints == "0123456789:ABCDEFGHIJKLMNOPQRSTUVWXYZ_abcdefghijklmnopqrstuvwxyz"

Ord == [c \in {SubSeq(CodePoints, i, i) : i \in 1..Len(CodePoints)} |->
          CHOOSE i \in 1..Len(CodePoints) : SubSeq(CodePoints, i, i) = c]

\* Python's < on str: lexicographic, by code point
RECURSIVE StrLess(_, _)
StrLess(a, b) ==
    IF Len(b) = 0 THEN FALSE
    ELSE IF Len(a) = 0 THEN TRUE
    ELSE LET x == Ord[SubSeq(a, 1, 1)]
             y == Ord[SubSeq(b, 1, 1)]
         IN  IF x # y THEN x < y
             ELSE StrLess(SubSeq(a, 2, Len(a)), SubSeq(b, 2, Len(b)))

SeqToSet(s) == {s[i] : i \in 1..Len(s)}

-----------------------------------------------------------------------------
(* The elements of the Tabulator's input documents *)

FullTags ==
    ("name" :> "St Mary") @@ ("phone" :> "555") @@ ("email" :> "a@b")
      @@ ("contact:email" :> "c@d") @@ ("website" :> "http://x")
      @@ ("religion" :> "christian")

\* elements that differ in their tags
TabElements ==
    {[type |-> "node", id |-> 1, lat |-> "37.1", lon |-> "-122.1",
      tags |-> FullTags],
     [type |-> "node", id |-> 2, lat |-> "37.2", lon |-> "-122.2",
      tags |-> ("name" :> "Cafe") @@ ("religion" :> "no")],
     [type |-> "node", id |-> 3, lat |-> "37.3", lon |-> "-122.3",
      tags |-> ("amenity" :> "place_of_worship") @@ ("religion" :> "none")],
     [type |-> "node", id |-> 4, lat |-> "37.4", lon |-> "-122.4",
      tags |-> ("shop" :> "books") @@ ("city" :> "Oakland")
                 @@ ("addr:city" :> "")],
     [type |-> "node", id |-> 5, lat |-> "37.5", lon |-> "-122.5",
      tags |-> ("amenity" :> "theatre") @@ ("latitude" :> "north")]}

\* elements that differ in their geometry
GeoElements ==
    {[type |-> "node", id |-> 1, lat |-> "1", lon |-> "2", tags |-> FullTags],
     [type |-> "node", id |-> 2, lat |-> "3", lon |-> "4",
      tags |-> ("source" :> "survey")],
     [type |-> "node", id |-> 2],
     [type |-> "way", id |-> 3, nodes |-> <<2, 1>>, tags |-> FullTags],
     [type |-> "way", id |-> 4, nodes |-> <<>>, tags |-> FullTags]}

\* every string the Tabulator sorts by in the model: directory names, file
\* stems and column names
Names ==
    {"csv", "parks"} \cup SeqToSet(COUNTIES) \cup SeqToSet(QUERIES)
      \cup {"name", "Collaborated", "query_county", "city", "query_purpose",
            "person_with_relationship", "org_contact", "org_contact_title",
            "phone", "email", "contact:email", "website",
            "latitude", "longitude", "osm_id", "osm_type"}
      \cup UNION {DOMAIN e.tags :
                    e \in {x \in TabElements \cup GeoElements :
                             "tags" \in DOMAIN x}}

\* Names in Python's order of str (computed once)
RECURSIVE StrSort(_)
StrSort(S) ==
    IF S = {} THEN <<>>
    ELSE LET m == CHOOSE x \in S : \A y \in S \ {x} : StrLess(x, y)
         IN  <<m>> \o StrSort(S \ {m})

NamesSorted == StrSort(Names)

NameRank == [s \in Names |->
               CHOOSE i \in 1..Len(NamesSorted) : NamesSorted[i] = s]

\* sorted(S) for a set of names
SortStrings(S) == SelectSeq(NamesSorted, LAMBDA x : x \in S)

-----------------------------------------------------------------------------
(* convert_to_csv.py: the functions *)

\* create_node_lookup: node id -> (lat, lon); a later element of the same id
\* overwrites an earlier one
create_node_lookup(elements) ==
    LET I   == {i \in 1..Len(elements) :
                   /\ Get(elements[i], "type", None) = "node"
                   /\ "lat" \in DOMAIN elements[i]
                   /\ "lon" \in DOMAIN elements[i]}
        ids == {elements[i].id : i \in I}
    IN  [n \in ids |->
            LET last == CHOOSE i \in I :
                            /\ elements[i].id = n
                            /\ \A j \in I : elements[j].id = n => j <= i
            IN  <<elements[last].lat, elements[last].lon>>]

meaningful_keys ==
    {"name", "amenity", "shop", "building", "leisure", "religion", "phone",
     "website", "addr:housenumber", "addr:street", "addr:city", "email",
     "opening_hours"}

noise_prefixes == {"source", "gnis", "wikidata", "wikipedia", "note", "fixme"}

\* should_include_element (node_lookup is not used by it)
should_include_element(el, lookup) ==
    LET tags == Get(el, "tags", <<>>)
    IN  IF DOMAIN tags = {}
          THEN FALSE
          ELSE \E key \in DOMAIN tags :
                  \/ key \in meaningful_keys
                  \/ ~(\E p \in noise_prefixes : StartsWith(key, p))

\* get_element_coordinates
get_element_coordinates(el, lookup) ==
    LET elem_type == Get(el, "type", None)
    IN  IF elem_type = "node"
          THEN <<Get(el, "lat", None), Get(el, "lon", None)>>
        ELSE IF elem_type = "way"
          THEN LET nodes == Get(el, "nodes", <<>>)
               IN  IF nodes # <<>> /\ nodes[1] \in DOMAIN lookup
                     THEN lookup[nodes[1]]
                     ELSE <<None, None>>
        ELSE <<None, None>>

\* extract_element_data: the six fixed keys, then every tag under its own key
extract_element_data(el, lookup, purpose, county) ==
    LET ll   == get_element_coordinates(el, lookup)
        base == [latitude      |-> ll[1],
                 longitude     |-> ll[2],
                 query_purpose |-> purpose,
                 query_county  |-> county,
                 osm_id        |-> Get(el, "id", None),
                 osm_type      |-> Get(el, "type", None)]
        tags == Get(el, "tags", <<>>)
    IN  [k \in DOMAIN base \cup DOMAIN tags |->
            IF k \in DOMAIN tags THEN tags[k] ELSE base[k]]

\* the node index of one document, merged with the index built before it
LookupFor_Shared(elements) == create_node_lookup(elements) @@ node_lookup

\* line 114: the node index process_json_file works with
LookupFor(elements) == create_node_lookup(elements)

\* process_json_file: the rows of one document; [] if it cannot be read
process_json_file(doc, purpose, county) ==
    IF ~doc.ok
      THEN <<>>
      ELSE LET lookup == LookupFor(doc.elements)
               inc    == SelectSeq(doc.elements,
                                   LAMBDA e : should_include_element(e, lookup))
           IN  [i \in 1..Len(inc) |->
                   extract_element_data(inc[i], lookup, purpose, county)]

-----------------------------------------------------------------------------
(* convert_to_csv.py: main *)

priority_cols ==
    <<"name", "Collaborated", "query_county", "city", "query_purpose",
      "person_with_relationship", "org_contact", "org_contact_title",
      "phone", "email", "contact:email", "website">>

remaining_base_cols == <<"latitude", "longitude", "osm_id", "osm_type">>

\* lines 182-186
blank_cols ==
    {"Collaborated", "city", "person_with_relationship", "org_contact",
     "org_contact_title"}

\* the sort key of line 192: (x.startswith('addr:'), x)
ColLess(a, b) ==
    LET ka == StartsWith(a, "addr:")
        kb == StartsWith(b, "addr:")
    IN  IF ka # kb THEN kb ELSE StrLess(a, b)

\* every name of the model in the order of line 192 (computed once)
RECURSIVE ColSort(_)
ColSort(S) ==
    IF S = {} THEN <<>>
    ELSE LET m == CHOOSE x \in S : \A y \in S \ {x} : ColLess(x, y)
         IN  <<m>> \o ColSort(S \ {m})

ColSorted == ColSort(Names)

\* sorted(other_cols, key=lambda x: (x.startswith('addr:'), x))
SortCols(S) == SelectSeq(ColSorted, LAMBDA x : x \in S)

\* the order of sort_values(['query_county', 'osm_id'])
RowLess(a, b) ==
    \/ NameRank[a.query_county] < NameRank[b.query_county]
    \/ a.query_county = b.query_county /\ a.osm_id < b.osm_id

RECURSIVE SortRows(_)
SortRows(rows) ==
    IF rows = <<>> THEN <<>>
    ELSE LET s == SortRows(SubSeq(rows, 1, Len(rows) - 1))
             x == rows[Len(rows)]
             n == Cardinality({i \in 1..Len(s) : ~RowLess(x, s[i])})
         IN  SubSeq(s, 1, n) \o <<x>> \o SubSeq(s, n + 1, Len(s))

\* the tag columns that are empty in every row of the whole frame
columns_to_drop_Global(rows) ==
    {col \in tag_columns :
        \A i \in 1..Len(df_all.rows) :
            IsNa(df_all.rows[i][col]) \/ df_all.rows[i][col] = ""}

\* lines 210-213: the tag columns that are empty in every row of the group
columns_to_drop(rows) ==
    {col \in tag_columns :
        \A i \in 1..Len(rows) : IsNa(rows[i][col]) \/ rows[i][col] = ""}

\* the files of data/<dir>/ matching *.json, by stem
Stems(dir) == {s[2] : s \in {x \in DOMAIN data : x[1] = dir /\ data[x].present}}

\* Lines 149-156: a directory of data/ that is no known county is skipped
SkipDir ==
    /\ tpc = "scan"
    /\ jsons = <<>>
    /\ dirs # <<>>
    /\ Head(dirs) \notin SeqToSet(COUNTIES)
    /\ dirs' = Tail(dirs)
    /\ UNCHANGED <<data, tpc, jsons, query_county, all_data, node_lookup,
                   df_all, col_order, tag_columns, purposes, csv>>
    /\ UNCHANGED <<rvars, ivars>>

\* Lines 158-161: a county directory, and its JSON files in sorted order
EnterDir ==
    /\ tpc = "scan"
    /\ jsons = <<>>
    /\ dirs # <<>>
    /\ Head(dirs) \in SeqToSet(COUNTIES)
    /\ query_county' = Head(dirs)
    /\ jsons' = SortStrings(Stems(Head(dirs)))
    /\ dirs' = Tail(dirs)
    /\ UNCHANGED <<data, tpc, all_data, node_lookup, df_all, col_order,
                   tag_columns, purposes, csv>>
    /\ UNCHANGED <<rvars, ivars>>

\* Lines 162-165: a file whose stem is no known category is skipped
SkipFile ==
    /\ tpc = "scan"
    /\ jsons # <<>>
    /\ Head(jsons) \notin SeqToSet(QUERIES)
    /\ jsons' = Tail(jsons)
    /\ UNCHANGED <<data, tpc, dirs, query_county, all_data, node_lookup,
                   df_all, col_order, tag_columns, purposes, csv>>
    /\ UNCHANGED <<rvars, ivars>>

\* Lines 167-168: the rows of one document are added to all_data
ProcessFile ==
    /\ tpc = "scan"
    /\ jsons # <<>>
    /\ Head(jsons) \in SeqToSet(QUERIES)
    /\ LET doc == data[<<query_county, Head(jsons)>>]
       IN  /\ all_data' = all_data
                            \o process_json_file(doc, Head(jsons), query_county)
           /\ node_lookup' = IF doc.ok THEN LookupFor(doc.elements)
                                       ELSE node_lookup
    /\ jsons' = Tail(jsons)
    /\ UNCHANGED <<data, tpc, dirs, query_county, df_all, col_order,
                   tag_columns, purposes, csv>>
    /\ UNCHANGED <<rvars, ivars>>

\* Lines 170-173: the scan is over; "No data to convert!" without rows
EndScan ==
    /\ tpc = "scan"
    /\ jsons = <<>>
    /\ dirs = <<>>
    /\ tpc' = IF all_data = <<>> THEN "nodata" ELSE "frame"
    /\ UNCHANGED <<data, dirs, jsons, query_county, all_data, node_lookup,
                   df_all, col_order, tag_columns, purposes, csv>>
    /\ UNCHANGED <<rvars, ivars>>

\* pd.DataFrame(all_data): the union of the rows' keys, NaN where a row has none
DataFrame(rows) ==
    LET columns == UNION {DOMAIN rows[i] : i \in 1..Len(rows)}
    IN  [columns |-> columns,
         rows    |-> [i \in 1..Len(rows) |->
                        [c \in columns |-> Get(rows[i], c, NaN)]]]

\* Lines 175-179: the frame, and the religion filter; df_all['religion']
\* raises KeyError when no row has that key
Frame ==
    /\ tpc = "frame"
    /\ LET df == DataFrame(all_data)
       IN  IF "religion" \notin df.columns
             THEN /\ tpc' = "keyerror"
                  /\ df_all' = df
             ELSE /\ tpc' = "columns"
                  /\ df_all' =
                       [df EXCEPT !.rows =
                          SelectSeq(df.rows,
                                    LAMBDA r : r["religion"] \notin {"no", "none"})]
    /\ UNCHANGED <<data, dirs, jsons, query_county, all_data, node_lookup,
                   col_order, tag_columns, purposes, csv>>
    /\ UNCHANGED <<rvars, ivars>>

\* Lines 181-202: the blank columns, the column order, the groups
Columns ==
    /\ tpc = "columns"
    /\ LET columns    == df_all.columns \cup blank_cols
           rows       == [i \in 1..Len(df_all.rows) |->
                            [c \in columns |->
                                IF c \in blank_cols THEN ""
                                                    ELSE df_all.rows[i][c]]]
           other_cols == columns \ (SeqToSet(priority_cols)
                                      \cup SeqToSet(remaining_base_cols))
       IN  /\ df_all' = [columns |-> columns, rows |-> rows]
           /\ col_order' = priority_cols \o remaining_base_cols
                             \o SortCols(other_cols)
           /\ tag_columns' = other_cols
           /\ purposes' = SortStrings({rows[i]["query_purpose"] :
                                          i \in 1..Len(rows)})
    /\ tpc' = "groups"
    /\ UNCHANGED <<data, dirs, jsons, query_county, all_data, node_lookup, csv>>
    /\ UNCHANGED <<rvars, ivars>>

\* Lines 204-225: one category's table; group_df[col_order] raises KeyError
\* when a column of col_order is no column of the frame
WriteGroup ==
    /\ tpc = "groups"
    /\ purposes # <<>>
    /\ LET purpose == Head(purposes)
           group   == SelectSeq(df_all.rows,
                                LAMBDA r : r["query_purpose"] = purpose)
       IN  IF ~(SeqToSet(col_order) \subseteq df_all.columns)
             THEN /\ tpc' = "keyerror"
                  /\ UNCHANGED <<purposes, csv>>
             ELSE LET sorted == SortRows(group)
                      drop   == columns_to_drop(sorted)
                      cols   == SelectSeq(col_order, LAMBDA c : c \notin drop)
                      table  == [columns |-> cols,
                                 rows    |-> [i \in 1..Len(sorted) |->
                                                [c \in SeqToSet(cols) |->
                                                    sorted[i][c]]]]
                  IN  /\ csv' = (purpose :> table) @@ csv
                      /\ purposes' = Tail(purposes)
                      /\ UNCHANGED tpc
    /\ UNCHANGED <<data, dirs, jsons, query_county, all_data, node_lookup,
                   df_all, col_order, tag_columns>>
    /\ UNCHANGED <<rvars, ivars>>

\* Lines 239-253: every group is written
Done ==
    /\ tpc = "groups"
    /\ purposes = <<>>
    /\ tpc' = "done"
    /\ UNCHANGED <<data, dirs, jsons, query_county, all_data, node_lookup,
                   df_all, col_order, tag_columns, purposes, csv>>
    /\ UNCHANGED <<rvars, ivars>>

\* should_include_element, called on its own
Include ==
    /\ ipc = "call"
    /\ included' = should_include_element(element, <<>>)
    /\ ipc' = "ret"
    /\ UNCHANGED element
    /\ UNCHANGED <<rvars, tvars>>

-----------------------------------------------------------------------------
(* The data directories the Tabulator is run on *)

File(elements) == [present |-> TRUE, ok |-> TRUE, elements |-> elements]
\* a file json.load cannot read
Malformed == [present |-> TRUE, ok |-> FALSE, elements |-> <<>>]
Absent == [present |-> FALSE, ok |-> FALSE, elements |-> <<>>]

\* the documents of up to MaxElems elements
Documents(E) ==
    {Absent, Malformed}
      \cup {File(s) : s \in UNION {[1..n -> E] : n \in 0..MaxElems}}

\* data/: two documents of up to MaxElems elements together, a third document
\* that is absent or holds one fixed element, and a file of an unknown stem
TabulatorStart(E) ==
    /\ \E a \in Documents(E), b \in Documents(E),
          c \in {Absent, File(<<CHOOSE e \in E : e.id = 1>>)},
          d \in {Absent, File(<<>>)} :
          /\ Len(a.elements) + Len(b.elements) <= MaxElems
          /\ data = (<<"alameda", "bookstores">> :> a)
                   @@ (<<"alameda", "religion">> :> b)
                   @@ (<<"contra_costa", "religion">> :> c)
                   @@ (<<"alameda", "parks">> :> d)
    /\ tpc = "scan"
    \* sorted(data_dir.iterdir()); data/csv exists since line 141
    /\ dirs = SortStrings({"csv"} \cup {x[1] : x \in {y \in DOMAIN data :
                                                        data[y].present}})
    /\ jsons = <<>>
    /\ query_county = None
    /\ all_data = <<>>
    /\ node_lookup = <<>>
    /\ df_all = [columns |-> {}, rows |-> <<>>]
    /\ col_order = <<>>
    /\ tag_columns = {}
    /\ purposes = <<>>
    /\ csv = <<>>

TabulatorOff ==
    /\ data = <<>>
    /\ tpc = "off"
    /\ dirs = <<>>
    /\ jsons = <<>>
    /\ query_county = None
    /\ all_data = <<>>
    /\ node_lookup = <<>>
    /\ df_all = [columns |-> {}, rows |-> <<>>]
    /\ col_order = <<>>
    /\ tag_columns = {}
    /\ purposes = <<>>
    /\ csv = <<>>

\* tag keys: the allow-set, keys under a noise prefix, and other keys
IncludeKeys ==
    meaningful_keys
      \cup {"source", "source:date", "gnis:feature_id", "wikidata",
            "wikipedia:en", "note", "notes", "fixme"}
      \cup {"denomination", "sourc", "FIXME", "old_name"}

\* elements without a tags key, with tags {}, and with up to MaxTags tags
IncludeInputs ==
    {[type |-> "node", id |-> 1]}
      \cup {[type |-> "node", id |-> 1, tags |-> <<>>]}
      \cup {[type |-> "node", id |-> 1,
             tags |-> [k \in {f[i] : i \in 1..MaxTags} |-> "v"]] :
               f \in [1..MaxTags -> IncludeKeys]}

IncludeStart ==
    /\ element \in IncludeInputs
    /\ included = FALSE
    /\ ipc = "call"

IncludeOff ==
    /\ element = <<>>
    /\ included = FALSE
    /\ ipc = "off"

RetrieverStart ==
    /\ files = [p \in Pairs |-> NoFile]
    /\ files0 = [p \in Pairs |-> NoFile]
    /\ run = 1
    /\ idx = 1
    /\ pc = "loop"
    /\ attempt = 0
    /\ delay = 0
    /\ result = None
    /\ responses = <<>>
    /\ log = <<>>
    /\ visited = <<>>
    /\ requested = {}

RetrieverOff ==
    /\ files = [p \in Pairs |-> NoFile]
    /\ files0 = [p \in Pairs |-> NoFile]
    /\ run = 1
    /\ idx = 1
    /\ pc = "off"
    /\ attempt = 0
    /\ delay = 0
    /\ result = None
    /\ responses = <<>>
    /\ log = <<>>
    /\ visited = <<>>
    /\ requested = {}

-----------------------------------------------------------------------------
(* The specifications *)

Init == RetrieverStart /\ TabulatorOff /\ IncludeOff

Next ==
    \/ Visit
    \/ \E r \in Responses : Post(r)
    \/ Sleep
    \/ Save
    \/ Finish
    \/ Rerun

\* runs of query_osm.main
Spec == Init /\ [][Next]_vars

TabNext ==
    \/ SkipDir
    \/ EnterDir
    \/ SkipFile
    \/ ProcessFile
    \/ EndScan
    \/ Frame
    \/ Columns
    \/ WriteGroup
    \/ Done

TabInit == RetrieverOff /\ TabulatorStart(TabElements) /\ IncludeOff

\* one run of convert_to_csv.main over documents that differ in their tags
TabSpec == TabInit /\ [][TabNext]_vars

GeoInit == RetrieverOff /\ TabulatorStart(GeoElements) /\ IncludeOff

\* one run of convert_to_csv.main over documents that differ in geometry
GeoSpec == GeoInit /\ [][TabNext]_vars

IncludeInit == RetrieverOff /\ TabulatorOff /\ IncludeStart

\* one call of should_include_element
IncludeSpec == IncludeInit /\ [][Include]_vars

-----------------------------------------------------------------------------
(* Observations of one call of query_overpass *)

\* the delays slept so far in the current call, in order
Sleeps == LET s == SelectSeq(log, LAMBDA e : e.t = "sleep")
          IN  [i \in 1..Len(s) |-> s[i].d]

NumRequests == Len(SelectSeq(log, LAMBDA e : e.t = "req"))

\* the call has returned to main()
Returned == pc \in {"returned", "loop", "done"}

\* a response with a retryable status, as the claims word it
RetryableStatus(r) == ~Raises(r) /\ (r.status >= 500 \/ r.status = 429)

\* a 200 whose body is JSON
Ok200(r) == ~Raises(r) /\ r.status = 200 /\ r.body # BadJson

\* a status that is neither 200, nor >= 500, nor 429
ClientError(r) ==
    ~Raises(r) /\ r.status # 200 /\ ~(r.status >= 500) /\ r.status # 429

\* requests and sleeps alternate, starting with a request
Alternates ==
    \A i \in 1..Len(log) : log[i].t = (IF i % 2 = 1 THEN "req" ELSE "sleep")

\* C1: when the first k responses of a call are retryable statuses and
\* response k+1 is a 200 with a JSON body, the call has slept exactly k times,
\* 2^0, ..., 2^(k-1) seconds in that order, each sleep between two consecutive
\* requests, it issued no request after the 200, and it returned the body.
C1_BackoffThenSuccess ==
    LET n == Len(responses) IN
    (/\ n >= 1
     /\ Ok200(responses[n])
     /\ \A i \in 1..(n - 1) : RetryableStatus(responses[i]))
    => /\ n - 1 \in 0..(max_retries - 1)
       /\ Sleeps = [i \in 1..(n - 1) |-> 2 ^ (i - 1)]
       /\ Len(log) = 2 * n - 1
       /\ Alternates
       /\ NumRequests = n
       /\ Returned
       /\ result = responses[n].body

\* three server errors, then a 200: slept 1s, 2s, 4s and returned the body
C1_Witness ==
    /\ Len(responses) = 4
    /\ \A i \in 1..3 : responses[i].status = 500
    /\ responses[4] = [status |-> 200, body |-> "docA"]
    /\ Sleeps = <<1, 2, 4>>
    /\ pc = "returned"
    /\ result = "docA"

\* C2: a response with a client-error status ends the call at once, on any
\* attempt: it is the last response of the call, nothing is slept or requested
\* after it, and the call returns None.
C2_ClientErrorFailsFast ==
    \A i \in 1..Len(responses) :
        ClientError(responses[i])
        => /\ i = Len(responses)
           /\ Len(log) = 2 * i - 1
           /\ log[Len(log)] = Req
           /\ Returned
           /\ result = None

\* a 404 on the third attempt, after two retried responses
C2_Witness ==
    /\ Len(responses) = 3
    /\ responses[3].status = 404
    /\ attempt = 2
    /\ pc = "returned"
    /\ Sleeps = <<1, 2>>

\* what follows response i of the call when it is retried: a sleep of 2^(i-1)
\* seconds, then the next request
RetriedAfter(i) ==
    \/ Len(log) = 2 * i - 1 /\ pc = "sleep" /\ delay = 2 ^ (i - 1)
    \/ /\ Len(log) >= 2 * i
       /\ log[2 * i] = SleepEv(2 ^ (i - 1))
       /\ Len(log) = 2 * i => pc = "post" /\ attempt = i
       /\ Len(log) > 2 * i => log[2 * i + 1] = Req

\* C3: before the final attempt a transport failure is retried exactly as a
\* retryable status is (sleep 2^i, next request); a transport failure of the
\* final attempt ends the call without a sleep; five transport failures make
\* five requests, sleeps of 1, 2, 4, 8 seconds, and the call returns None.
C3_TransportFailure ==
    /\ \A i \in 1..Len(responses) :
          /\ (i < max_retries
              /\ (Raises(responses[i]) \/ RetryableStatus(responses[i])))
             => RetriedAfter(i)
          /\ (i = max_retries /\ Raises(responses[i]))
             => /\ Len(log) = 2 * max_retries - 1
                /\ Returned
                /\ result = None
    /\ (Len(responses) = max_retries
        /\ \A i \in 1..max_retries : Raises(responses[i]))
       => /\ NumRequests = 5
          /\ Sleeps = <<1, 2, 4, 8>>
          /\ Returned
          /\ result = None
    /\ Len(responses) <= max_retries

\* all five attempts failed in transport
C3_Witness ==
    /\ Len(responses) = max_retries
    /\ \A i \in 1..max_retries : Raises(responses[i])
    /\ pc = "returned"
    /\ Sleeps = <<1, 2, 4, 8>>

-----------------------------------------------------------------------------
(* Observations of one run of query_osm.main *)

NumPairs == Len(PairOrder)

\* how far a run has come: every step of the run raises it
Progress ==
    LET pos  == IF pc = "done" THEN idx + 1 ELSE idx
        call == CASE pc = "post"     -> 1 + 2 * attempt
                  [] pc = "sleep"    -> 2 + 2 * attempt
                  [] pc = "returned" -> 2 + 2 * max_retries
                  [] OTHER           -> 0
    IN  (run * (NumPairs + 3) + pos) * (3 + 2 * max_retries) + call

\* the pair whose fetch has just been handled by main()
JustHandled == pc = "loop" /\ idx > 1 /\ PairOrder[idx - 1] \in requested

C4_State ==
    \* the pairs are visited in order, each once
    /\ Len(visited) <= NumPairs
    /\ visited = SubSeq(PairOrder, 1, Len(visited))
    /\ pc = "done" => visited = PairOrder
    \* a failed fetch leaves no document, and the loop goes on
    /\ (JustHandled /\ result = None)
       => /\ files[PairOrder[idx - 1]] = NoFile
          /\ visited[Len(visited)] = PairOrder[idx - 1]
    \* every pair that had no document was fetched, whatever failed before it
    /\ pc = "done" => \A p \in Pairs : files0[p] = NoFile => p \in requested
    \* the run is never stuck before its end
    /\ pc # "done" => ENABLED Next

\* C4: a failed fetch never aborts the batch: in every run the pairs are
\* visited in order, each exactly once, every pair without a document is
\* fetched whatever failed before it, a failed pair leaves no document, and
\* the run reaches its end (it is never stuck, and every step is progress).
C4_FailureDoesNotAbort ==
    /\ []C4_State
    /\ [][Progress' > Progress]_vars

\* a run that ended although its first fetch failed and a later one succeeded
C4_Witness ==
    /\ pc = "done"
    /\ run = 1
    /\ files[PairOrder[1]] = NoFile
    /\ files[PairOrder[2]] # NoFile
    /\ files[PairOrder[NumPairs]] = NoFile
    /\ requested = Pairs

\* C5: a pair whose document exists when a run starts is never requested in
\* that run and its document stays as it was; a finished run has requested
\* exactly the pairs that had no document (none, if every pair had one).
C5_Resumable ==
    /\ \A p \in Pairs :
          files0[p] # NoFile => p \notin requested /\ files[p] = files0[p]
    /\ pc = "done" => requested = {p \in Pairs : files0[p] = NoFile}

\* a second run after a partial first run: only the missing pair is requested
C5_Witness ==
    /\ run = 2
    /\ pc = "done"
    /\ files0[PairOrder[1]] = "docA"
    /\ files0[PairOrder[2]] = NoFile
    /\ files0[PairOrder[3]] = "docB"
    /\ requested = {p \in Pairs : files0[p] = NoFile}
    /\ PairOrder[1] \notin requested
    /\ files[PairOrder[2]] = "docB"

-----------------------------------------------------------------------------
(* Observations of one call of should_include_element *)

C7_AllowSet ==
    {"name", "amenity", "shop", "building", "leisure", "religion", "phone",
     "website", "addr:housenumber", "addr:street", "addr:city", "email",
     "opening_hours"}

C7_NoisePrefixes == {"source", "gnis", "wikidata", "wikipedia", "note", "fixme"}

\* key starts with one of the noise prefixes
NoisePrefixed(key) ==
    \E n \in 0..Len(key) : SubSeq(key, 1, n) \in C7_NoisePrefixes

\* the tag keys of the element the call was given
ElementKeys == IF "tags" \in DOMAIN element THEN DOMAIN element.tags ELSE {}

\* C7: should_include_element is false for an element with no tags (none or
\* {}), and otherwise false exactly when every tag key is outside the
\* allow-set and starts with a noise prefix: one allow-set key, or one key
\* without a noise prefix, makes it true.
C7_InclusionFilter ==
    ipc = "ret"
    => /\ ElementKeys = {} => ~included
       /\ ElementKeys # {}
          => (~included <=> \A k \in ElementKeys :
                               k \notin C7_AllowSet /\ NoisePrefixed(k))
       /\ (\E k \in ElementKeys : k \in C7_AllowSet) => included
       /\ (\E k \in ElementKeys : ~NoisePrefixed(k)) => included

\* a noise key and an allow-set key together: included
C7_Witness ==
    /\ ipc = "ret"
    /\ ElementKeys = {"source:date", "addr:city"}
    /\ included

-----------------------------------------------------------------------------
(* Observations of one run of convert_to_csv.main *)

\* main() has ended: normally, at "No data to convert!", or in a KeyError
Terminal == tpc \in {"done", "nodata", "keyerror"}

\* the slots of data/ that main() reads as documents
ReadSlots ==
    {x \in DOMAIN data :
        /\ data[x].present /\ data[x].ok
        /\ x[1] \in SeqToSet(COUNTIES) /\ x[2] \in SeqToSet(QUERIES)}

\* the rows of the tables written
OutputRows ==
    UNION {{csv[p].rows[i] : i \in 1..Len(csv[p].rows)} : p \in DOMAIN csv}

\* the output row o is the row of element e of the document at slot x
RowOf(o, e, x) ==
    /\ o["osm_id"] = e.id
    /\ o["osm_type"] = e.type
    /\ o["query_county"] = x[1]
    /\ o["query_purpose"] = x[2]

\* the way elements of the document at slot x
Ways(x) ==
    {data[x].elements[i] : i \in
        {j \in 1..Len(data[x].elements) : data[x].elements[j].type = "way"}}

\* the coordinates of the nodes of id n in the document at slot x
NodeCoords(x, n) ==
    {<<data[x].elements[i].lat, data[x].elements[i].lon>> : i \in
        {j \in 1..Len(data[x].elements) :
            /\ data[x].elements[j].type = "node"
            /\ data[x].elements[j].id = n
            /\ {"lat", "lon"} \subseteq DOMAIN data[x].elements[j]}}

\* what a way of the document at slot x resolves to, by the claim
ExpectedCoords(x, way) ==
    IF way.nodes = <<>> \/ NodeCoords(x, way.nodes[1]) = {}
      THEN <<None, None>>
      ELSE CHOOSE c \in NodeCoords(x, way.nodes[1]) : TRUE

\* the node index of the document at slot x, by the claim
ExpectedIndex(x) ==
    LET ids == {n \in {data[x].elements[i].id :
                          i \in 1..Len(data[x].elements)} :
                  NodeCoords(x, n) # {}}
    IN  [n \in ids |-> CHOOSE c \in NodeCoords(x, n) : TRUE]

\* C8: the row of a way carries the coordinates of the first id of its node
\* sequence in the node index of its own document, (null, null) if the
\* sequence is empty or the id is not indexed there; the index of a document
\* holds exactly the nodes of that document that carry lat and lon, whether
\* they are meaningful or not.
C8_WayCoordinates ==
    /\ \A i \in 1..Len(all_data) :
          all_data[i]["osm_type"] = "way"
          => LET r == all_data[i]
                 x == <<r["query_county"], r["query_purpose"]>>
             IN  /\ x \in ReadSlots
                 /\ \E w \in Ways(x) :
                       /\ w.id = r["osm_id"]
                       /\ <<r["latitude"], r["longitude"]>> = ExpectedCoords(x, w)
    /\ node_lookup = <<>> \/ \E x \in ReadSlots : node_lookup = ExpectedIndex(x)

\* way 3 is resolved by the noise-only node 2 of its own document, and stays
\* unresolved in the document that has no node 2
C8_Witness ==
    /\ tpc = "frame"
    /\ Len(all_data) = 2
    /\ all_data[1]["osm_type"] = "way" /\ all_data[1]["osm_id"] = 3
    /\ all_data[1]["query_purpose"] = "bookstores"
    /\ all_data[1]["latitude"] = None /\ all_data[1]["longitude"] = None
    /\ all_data[2]["osm_type"] = "way" /\ all_data[2]["osm_id"] = 3
    /\ all_data[2]["query_purpose"] = "religion"
    /\ all_data[2]["latitude"] = "3" /\ all_data[2]["longitude"] = "4"

\* the meaningful elements of the documents read, each with its slot
IncludedRecords ==
    UNION {{<<x, data[x].elements[i]>> : i \in
              {j \in 1..Len(data[x].elements) :
                  should_include_element(data[x].elements[j], <<>>)}} :
           x \in ReadSlots}

ReligionOf(e) == Get(e.tags, "religion", "absent")

\* C6 (the claim): when the corpus yields a meaningful row, no row of the
\* output has religion "no" or "none", and every meaningful record whose
\* religion is anything else, or absent, has its row in the output.
C6_ReligionFilter ==
    (Terminal /\ IncludedRecords # {})
    => /\ \A o \in OutputRows :
             "religion" \in DOMAIN o => o["religion"] \notin {"no", "none"}
       /\ \A xe \in IncludedRecords :
             ReligionOf(xe[2]) \notin {"no", "none"}
             => \E o \in OutputRows : RowOf(o, xe[2], xe[1])

\* C9 (the claim, on the runs that end normally, for the records the religion
\* filter keeps and their tags of a non-empty value): the row of the record
\* holds the tag's value under the tag's key, and the rows of the records
\* that lack the key hold null or the empty string there.
C9_TagRoundTrip ==
    tpc = "done"
    => \A xe \in IncludedRecords :
          ReligionOf(xe[2]) \notin {"no", "none"}
          => \A k \in DOMAIN xe[2].tags :
                xe[2].tags[k] # ""
                => /\ \E o \in OutputRows :
                         /\ RowOf(o, xe[2], xe[1])
                         /\ k \in DOMAIN o
                         /\ o[k] = xe[2].tags[k]
                   /\ \A o \in OutputRows :
                         (k \in DOMAIN o
                          /\ \E ye \in IncludedRecords :
                                RowOf(o, ye[2], ye[1])
                                  /\ k \notin DOMAIN ye[2].tags)
                         => IsNa(o[k]) \/ o[k] = ""

FixedCols == SeqToSet(priority_cols) \cup SeqToSet(remaining_base_cols)

\* the keys of the rows collected
AllKeys == UNION {DOMAIN all_data[i] : i \in 1..Len(all_data)}

\* the rows of category p that the religion filter keeps
CategoryRows(p) ==
    {i \in 1..Len(all_data) :
        /\ all_data[i]["query_purpose"] = p
        /\ Get(all_data[i], "religion", NaN) \notin {"no", "none"}}

\* C10: each category's table is pruned on its own: a tag column (one that is
\* no priority, geometry or id column) is absent from a table exactly when it
\* is null or the empty string in every row of that table, and the priority,
\* geometry and id columns are in every table.
C10_LocalPruning ==
    \A p \in DOMAIN csv :
        LET cols == SeqToSet(csv[p].columns)
        IN  /\ FixedCols \subseteq cols
            /\ cols \subseteq FixedCols \cup AllKeys
            /\ Len(csv[p].rows) = Cardinality(CategoryRows(p))
            /\ \A c \in AllKeys \ FixedCols :
                  c \in cols
                  <=> \E i \in CategoryRows(p) :
                         c \in DOMAIN all_data[i] /\ all_data[i][c] # ""

\* religion is empty in every row of bookstores and populated in religion:
\* dropped from the one table, kept in the other
C10_Witness ==
    /\ tpc = "done"
    /\ DOMAIN csv = {"bookstores", "religion"}
    /\ LET b == SeqToSet(csv["bookstores"].columns)
           r == SeqToSet(csv["religion"].columns)
       IN  /\ "religion" \notin b /\ "religion" \in r
           /\ "shop" \in b /\ "shop" \notin r
           /\ "addr:city" \notin b
           /\ "addr:city" \in AllKeys

=============================================================================
